---- MODULE Spec2Model ----
(***************************************************************************)
(* sjtu::priority_queue<T, Compare> (src/src/priority_queue.hpp): a        *)
(* leftist heap of raw-pointer nodes.  The model keeps the node store      *)
(* (data/left/right/npl per address), the allocator (live addresses and    *)
(* the free list), and the root/count pair of every container object.      *)
(* Each public member function is one action; an exception thrown by the   *)
(* comparison predicate or by operator new is an input of the call (the    *)
(* ordinal of the predicate call, or of the allocation, that throws).      *)
(* The caller alternates between making a call and taking its result.      *)
(***************************************************************************)
EXTENDS Integers, Sequences, FiniteSets, TLC

\* ------------------------------------------------------------------ bounds
MaxNodes == 6        \* addresses the allocator can hand out
MaxLive  == 4        \* push is called while fewer nodes than this are live
MaxVal   == 1        \* elements are 0..MaxVal
MaxFail  == 2        \* ordinal of the predicate call / allocation that may throw

Nodes  == 1..MaxNodes
Values == 0..MaxVal
Queues == {"a", "b"}          \* the container objects of the program
NULL   == 0                   \* nullptr

VARIABLES
    data, left, right, npl,   \* Node fields, per address
    live,                     \* addresses handed out by new and not deleted
    avail,                    \* free list: how often each address is on it
    root, count,              \* priority_queue fields, per container
    exists,                   \* container constructed and not destroyed
    oracle,                   \* element count kept independently by the caller
    crashed,                  \* the process was aborted
    last                      \* the call that has just returned to the caller
                              \* (op "none": the caller is between calls)

vars == <<data, left, right, npl, live, avail, root, count, exists, oracle, crashed, last>>

\* ------------------------------------------------------------ the predicate
\* Compare = std::less<T> on the elements
Cmp(a, b) == a < b

\* The program state as one value, together with the bookkeeping of the
\* call in progress.
Enter(failAt, allocFailAt) ==
    [data |-> data, left |-> left, right |-> right, npl |-> npl,
     live |-> live, avail |-> avail, root |-> root, count |-> count,
     failAt |-> failAt,            \* predicate call that throws (0: none)
     allocFailAt |-> allocFailAt,  \* allocation that throws (0: none)
     cmps |-> 0,                   \* predicate calls made
     allocs |-> 0,                 \* allocations attempted
     writes |-> 0,                 \* stores to a node's left/right/npl by mergeNodes
     lateCmp |-> FALSE,            \* a predicate call made after such a store
     made |-> {},                  \* addresses allocated by this call
     freed |-> [n \in Nodes |-> 0],\* deletes of each address by this call
     ub |-> FALSE,                 \* a delete of an address that was not live
     exc |-> "none",               \* exception in flight
     ret |-> NULL]

\* ----------------------------------------------------------- new / delete
FreeAddr(s) == {n \in Nodes : s.avail[n] > 0}

\* The address operator new hands out next.
NextAddr(s) == CHOOSE x \in FreeAddr(s) : \A y \in FreeAddr(s) : x <= y

\* Node(const T &d) : data(d), left(nullptr), right(nullptr), npl(0)
Construction(n, d, s) ==
    [s EXCEPT !.allocs = @ + 1,
              !.avail[n] = @ - 1,
              !.live = @ \cup {n},
              !.made = @ \cup {n},
              !.data[n] = d, !.left[n] = NULL, !.right[n] = NULL, !.npl[n] = 0,
              !.ret = n]

\* new Node(d)
NewNode(d, s) ==
    IF s.allocs + 1 = s.allocFailAt
    THEN [s EXCEPT !.allocs = @ + 1, !.exc = "bad_alloc", !.ret = NULL]
    ELSE IF FreeAddr(s) = {}
    THEN [s EXCEPT !.exc = "out_of_model", !.ret = NULL]
    ELSE Construction(NextAddr(s), d, s)

\* delete node.  Deleting an address that is not live is undefined behaviour:
\* the address goes on the free list a second time (unless the allocator
\* notices and aborts the process, see Install).
DeleteNode(n, s) ==
    IF n \in s.live
    THEN [s EXCEPT !.live = @ \ {n}, !.avail[n] = @ + 1, !.freed[n] = @ + 1,
                   !.data[n] = 0, !.left[n] = NULL, !.right[n] = NULL, !.npl[n] = 0]
    ELSE [s EXCEPT !.ub = TRUE, !.freed[n] = @ + 1, !.avail[n] = @ + 1]

\* ------------------------------------------------------------ private part
getNpl(node, s) == IF node # NULL THEN s.npl[node] ELSE -1

\* One call of cmp: it throws when it is the failAt-th call.
CallCmp(s) ==
    [s EXCEPT !.cmps = @ + 1,
              !.lateCmp = @ \/ (s.writes > 0),
              !.exc = IF s.cmps + 1 = s.failAt THEN "cmp" ELSE @]

RECURSIVE mergeNodes(_, _, _)

\* mergeNodes without the swap of lines 80-84.
mergeRestoreNoSwap(h1, s) ==
    [s EXCEPT !.npl[h1] = getNpl(s.right[h1], s) + 1,
              !.writes = @ + 1,
              !.ret = h1]

\* mergeNodes without the npl update of line 87.
mergeRestoreNoNpl(h1, s) ==
    IF getNpl(s.left[h1], s) < getNpl(s.right[h1], s)
    THEN [s EXCEPT !.left[h1] = s.right[h1],
                   !.right[h1] = s.left[h1],
                   !.writes = @ + 2,
                   !.ret = h1]
    ELSE [s EXCEPT !.ret = h1]

\* lines 80-89, h1 being the surviving root: the leftist swap, the npl
\* update, return h1
mergeRestore(h1, s) ==
    IF getNpl(s.left[h1], s) < getNpl(s.right[h1], s)
    THEN [s EXCEPT !.left[h1] = s.right[h1],
                   !.right[h1] = s.left[h1],
                   !.npl[h1] = getNpl(s.left[h1], s) + 1,
                   !.writes = @ + 3,
                   !.ret = h1]
    ELSE [s EXCEPT !.npl[h1] = getNpl(s.right[h1], s) + 1,
                   !.writes = @ + 1,
                   !.ret = h1]

\* line 77, the assignment: it is not reached when the recursive call threw
mergeLink(h1, s) ==
    IF s.exc # "none" THEN s
    ELSE mergeRestore(h1, [s EXCEPT !.right[h1] = s.ret, !.writes = @ + 1])

\* line 77, the recursive call, h1 and h2 being ordered by lines 70-74; s is
\* the state after the call of cmp
mergeInto(h1, h2, s) ==
    IF s.exc # "none" THEN s
    ELSE mergeLink(h1, mergeNodes(s.right[h1], h2, s))

\* mergeNodes without lines 70-74: h1 always survives as the root.
mergeNodesKeepFirst(h1, h2, s) ==
    IF h1 = NULL THEN [s EXCEPT !.ret = h2]
    ELSE IF h2 = NULL THEN [s EXCEPT !.ret = h1]
    ELSE mergeInto(h1, h2, CallCmp(s))

\* mergeNodes that unlinks the root's right child before it merges into it.
mergeIntoDetached(h1, h2, s) ==
    IF s.exc # "none" THEN s
    ELSE mergeLink(h1, mergeNodes(s.right[h1], h2,
                                  [s EXCEPT !.right[h1] = NULL, !.writes = @ + 1]))

mergeNodesDetach(h1, h2, s) ==
    IF h1 = NULL THEN [s EXCEPT !.ret = h2]
    ELSE IF h2 = NULL THEN [s EXCEPT !.ret = h1]
    ELSE IF Cmp(s.data[h1], s.data[h2])
    THEN mergeIntoDetached(h2, h1, CallCmp(s))
    ELSE mergeIntoDetached(h1, h2, CallCmp(s))

\* mergeNodes with the operands of cmp exchanged: the smaller root survives.
mergeNodesFlipped(h1, h2, s) ==
    IF h1 = NULL THEN [s EXCEPT !.ret = h2]
    ELSE IF h2 = NULL THEN [s EXCEPT !.ret = h1]
    ELSE IF Cmp(s.data[h2], s.data[h1])
    THEN mergeInto(h2, h1, CallCmp(s))
    ELSE mergeInto(h1, h2, CallCmp(s))

mergeNodes(h1, h2, s) ==
    IF h1 = NULL THEN [s EXCEPT !.ret = h2]
    ELSE IF h2 = NULL THEN [s EXCEPT !.ret = h1]
    ELSE IF Cmp(s.data[h1], s.data[h2])
    THEN mergeInto(h2, h1, CallCmp(s))
    ELSE mergeInto(h1, h2, CallCmp(s))

RECURSIVE deleteTree(_, _)

\* line 60, then line 61; s is the state after line 59
deleteRight(node, s) == DeleteNode(node, deleteTree(s.right[node], s))

deleteTree(node, s) ==
    IF node = NULL THEN s
    ELSE deleteRight(node, deleteTree(s.left[node], s))

RECURSIVE copyTree(_, _)

\* Line 43 and what follows it; s is the state after that call.  The handler
\* of the inner try (lines 44-48) deletes newNode and rethrows inside the
\* outer try block, whose handler (lines 49-52) deletes newNode again.
copyRightDone(newNode, s) ==
    IF s.exc # "none"
    THEN DeleteNode(newNode,
             DeleteNode(newNode, deleteTree(s.left[newNode], s)))
    ELSE [s EXCEPT !.right[newNode] = s.ret, !.ret = newNode]

\* Line 41 and what follows it; s is the state after that call.
copyLeftDone(node, newNode, s) ==
    IF s.exc # "none"
    THEN DeleteNode(newNode, s)
    ELSE copyRightDone(newNode,
             copyTree(s.right[node], [s EXCEPT !.left[newNode] = s.ret]))

\* Lines 39-41; s is the state after line 38.
copyChildren(node, s) ==
    IF s.exc # "none" THEN s
    ELSE copyLeftDone(node, s.ret,
             copyTree(s.left[node], [s EXCEPT !.npl[s.ret] = s.npl[node]]))

copyTree(node, s) ==
    IF node = NULL THEN [s EXCEPT !.ret = NULL]
    ELSE copyChildren(node, NewNode(s.data[node], s))

\* ------------------------------------------------------------- public part
\* priority_queue(): root(nullptr), count(0)
construct(q, s) == [s EXCEPT !.root[q] = NULL, !.count[q] = 0]

\* line 104, the assignment
copyInstall(q, s) ==
    IF s.exc # "none" THEN s
    ELSE [s EXCEPT !.root[q] = s.ret, !.ret = NULL]

\* A copy constructor that copies the root pointer instead of the tree.
copyConstructShallow(q, other, s) ==
    [s EXCEPT !.root[q] = s.root[other], !.count[q] = s.count[other]]

\* priority_queue(const priority_queue &other)
copyConstruct(q, other, s) ==
    IF s.root[other] = NULL
    THEN [s EXCEPT !.root[q] = NULL, !.count[q] = s.count[other]]
    ELSE copyInstall(q, copyTree(s.root[other],
             [s EXCEPT !.root[q] = NULL, !.count[q] = s.count[other]]))

\* ~priority_queue()
destroy(q, s) == deleteTree(s.root[q], s)

\* lines 128-133; s is the state after lines 123-126, s.ret being newRoot
assignInstall(q, other, s) ==
    IF s.exc # "none" THEN s
    ELSE [deleteTree(s.root[q], s) EXCEPT
              !.root[q] = s.ret, !.count[q] = s.count[other], !.ret = NULL]

\* operator=
assign(q, other, s) ==
    IF q = other THEN s
    ELSE IF s.root[other] # NULL
    THEN assignInstall(q, other, copyTree(s.root[other], s))
    ELSE assignInstall(q, other, [s EXCEPT !.ret = NULL])

\* top(): the element, or container_is_empty
top(q, s) ==
    IF s.root[q] = NULL THEN [s EXCEPT !.exc = "container_is_empty"]
    ELSE [s EXCEPT !.ret = s.data[s.root[q]]]

\* push whose handler rethrows what it caught (throw; for throw runtime_error()).
pushInstallRethrow(q, newNode, oldRoot, oldCount, s) ==
    IF s.exc = "none"
    THEN [s EXCEPT !.root[q] = s.ret, !.count[q] = @ + 1, !.ret = NULL]
    ELSE [DeleteNode(newNode, s) EXCEPT
              !.root[q] = oldRoot, !.count[q] = oldCount]

\* lines 155-164; s is the state after the merge of line 156
pushInstall(q, newNode, oldRoot, oldCount, s) ==
    IF s.exc = "none"
    THEN [s EXCEPT !.root[q] = s.ret, !.count[q] = @ + 1, !.ret = NULL]
    ELSE [DeleteNode(newNode, s) EXCEPT
              !.root[q] = oldRoot, !.count[q] = oldCount, !.exc = "runtime_error"]

\* lines 152-156; s is the state after line 151, s.ret being newNode
pushMerge(q, s) ==
    IF s.exc # "none" THEN s
    ELSE pushInstall(q, s.ret, s.root[q], s.count[q],
                     mergeNodes(s.root[q], s.ret, s))

\* push whose handler does not delete newNode.
pushInstallNoDelete(q, oldRoot, oldCount, s) ==
    IF s.exc = "none"
    THEN [s EXCEPT !.root[q] = s.ret, !.count[q] = @ + 1, !.ret = NULL]
    ELSE [s EXCEPT !.root[q] = oldRoot, !.count[q] = oldCount,
                   !.exc = "runtime_error"]

pushMergeNoDelete(q, s) ==
    IF s.exc # "none" THEN s
    ELSE pushInstallNoDelete(q, s.root[q], s.count[q],
                             mergeNodes(s.root[q], s.ret, s))

pushNoDelete(q, e, s) == pushMergeNoDelete(q, NewNode(e, s))

\* push that counts the element before the merge and whose handler does not
\* restore count.
pushInstallCounted(q, newNode, oldRoot, s) ==
    IF s.exc = "none"
    THEN [s EXCEPT !.root[q] = s.ret, !.ret = NULL]
    ELSE [DeleteNode(newNode, s) EXCEPT
              !.root[q] = oldRoot, !.exc = "runtime_error"]

pushMergeCounted(q, s) ==
    IF s.exc # "none" THEN s
    ELSE pushInstallCounted(q, s.ret, s.root[q],
             mergeNodes(s.root[q], s.ret, [s EXCEPT !.count[q] = @ + 1]))

pushCountFirst(q, e, s) == pushMergeCounted(q, NewNode(e, s))

push(q, e, s) == pushMerge(q, NewNode(e, s))

\* pop without line 182 (count--).
popInstallKeepCount(q, oldRoot, oldCount, s) ==
    IF s.exc = "none"
    THEN [DeleteNode(oldRoot, s) EXCEPT !.root[q] = s.ret, !.ret = NULL]
    ELSE [s EXCEPT !.root[q] = oldRoot, !.count[q] = oldCount,
                   !.exc = "runtime_error"]

\* lines 179-188; s is the state after the merge of line 180
popInstall(q, oldRoot, oldCount, s) ==
    IF s.exc = "none"
    THEN [DeleteNode(oldRoot, s) EXCEPT
              !.root[q] = s.ret, !.count[q] = @ - 1, !.ret = NULL]
    ELSE [s EXCEPT !.root[q] = oldRoot, !.count[q] = oldCount,
                   !.exc = "runtime_error"]

\* pop that deletes the old root before it merges the children.
popInstallDeleted(q, oldRoot, oldCount, s) ==
    IF s.exc = "none"
    THEN [s EXCEPT !.root[q] = s.ret, !.count[q] = @ - 1, !.ret = NULL]
    ELSE [s EXCEPT !.root[q] = oldRoot, !.count[q] = oldCount,
                   !.exc = "runtime_error"]

popDeleteFirst(q, s) ==
    IF s.root[q] = NULL THEN [s EXCEPT !.exc = "container_is_empty"]
    ELSE popInstallDeleted(q, s.root[q], s.count[q],
             mergeNodes(s.left[s.root[q]], s.right[s.root[q]],
                        DeleteNode(s.root[q], s)))

\* pop that installs the left child as the root without merging the right.
popLeftOnly(q, s) ==
    IF s.root[q] = NULL THEN [s EXCEPT !.exc = "container_is_empty"]
    ELSE [DeleteNode(s.root[q], s) EXCEPT
              !.root[q] = s.left[s.root[q]], !.count[q] = @ - 1]

pop(q, s) ==
    IF s.root[q] = NULL THEN [s EXCEPT !.exc = "container_is_empty"]
    ELSE popInstall(q, s.root[q], s.count[q],
                    mergeNodes(s.left[s.root[q]], s.right[s.root[q]], s))

size(q, s) == s.count[q]

empty(q, s) == s.count[q] = 0

\* lines 221-233; s is the state after the merge of line 222
mergeInstall(q, other, oldRoot, otherOldRoot, oldCount, otherOldCount, s) ==
    IF s.exc = "none"
    THEN [s EXCEPT !.root[q] = s.ret,
                   !.count[q] = @ + s.count[other],
                   !.root[other] = NULL,
                   !.count[other] = 0,
                   !.ret = NULL]
    ELSE [s EXCEPT !.root[q] = oldRoot, !.root[other] = otherOldRoot,
                   !.count[q] = oldCount, !.count[other] = otherOldCount,
                   !.exc = "runtime_error"]

\* merge without line 223 (count += other.count).
mergeInstallNoCount(q, other, s) ==
    IF s.exc = "none"
    THEN [s EXCEPT !.root[q] = s.ret, !.root[other] = NULL,
                   !.count[other] = 0, !.ret = NULL]
    ELSE [s EXCEPT !.exc = "runtime_error"]

mergeNoCount(q, other, s) ==
    IF q = other THEN s
    ELSE mergeInstallNoCount(q, other, mergeNodes(s.root[q], s.root[other], s))

\* merge without line 224 (other.root = nullptr).
mergeInstallKeepRoot(q, other, s) ==
    IF s.exc = "none"
    THEN [s EXCEPT !.root[q] = s.ret, !.count[q] = @ + s.count[other],
                   !.count[other] = 0, !.ret = NULL]
    ELSE [s EXCEPT !.exc = "runtime_error"]

mergeKeepOtherRoot(q, other, s) ==
    IF q = other THEN s
    ELSE mergeInstallKeepRoot(q, other, mergeNodes(s.root[q], s.root[other], s))

\* merge without the test of line 214.
mergeNoSelfTest(q, other, s) ==
    mergeInstall(q, other, s.root[q], s.root[other], s.count[q], s.count[other],
                 mergeNodes(s.root[q], s.root[other], s))

merge(q, other, s) ==
    IF q = other THEN s
    ELSE mergeInstall(q, other, s.root[q], s.root[other], s.count[q], s.count[other],
                      mergeNodes(s.root[q], s.root[other], s))

\* ---------------------------------------------------------------- actions
\* What the caller observes of a finished call.
Outcome(op, q, other, value, s) ==
    [op |-> op, q |-> q, other |-> other,
     exc |-> s.exc,            \* "none" or the exception that reached the caller
     value |-> value,          \* what top() returned
     cmps |-> s.cmps,          \* predicate calls made
     made |-> s.made,          \* addresses the call allocated
     freed |-> s.freed,        \* how often the call deleted each address
     ub |-> s.ub]              \* the call deleted an address that was not live

\* The caller between calls.
Idle ==
    [op |-> "none", q |-> "a", other |-> "a", exc |-> "none", value |-> NULL,
     cmps |-> 0, made |-> {}, freed |-> [n \in Nodes |-> 0], ub |-> FALSE]

\* The call leaves the program in state s.  A call that deleted an address
\* twice either went on, or was aborted by the allocator.
Install(s) ==
    /\ s.exc # "out_of_model"
    /\ data' = s.data /\ left' = s.left /\ right' = s.right /\ npl' = s.npl
    /\ live' = s.live /\ avail' = s.avail
    /\ root' = s.root /\ count' = s.count
    /\ crashed' \in (IF s.ub THEN BOOLEAN ELSE {FALSE})

\* The process runs and its free list is intact.  Once an address is on the
\* free list twice the behaviour of the program is undefined, and the model
\* follows it no further.
Running == ~crashed /\ \A n \in Nodes : avail[n] <= 1

\* The caller is ready to call a member function of container q.
Ready(q) == Running /\ last.op = "none" /\ exists[q]

Init ==
    /\ data = [n \in Nodes |-> 0]
    /\ left = [n \in Nodes |-> NULL]
    /\ right = [n \in Nodes |-> NULL]
    /\ npl = [n \in Nodes |-> 0]
    /\ live = {}
    /\ avail = [n \in Nodes |-> 1]
    /\ root = [q \in Queues |-> NULL]
    /\ count = [q \in Queues |-> 0]
    /\ exists = [q \in Queues |-> q = "a"]
    /\ oracle = [q \in Queues |-> 0]
    /\ crashed = FALSE
    /\ last = Idle

Construct(q) ==
    /\ Running /\ last.op = "none" /\ ~exists[q]
    /\ LET s == construct(q, Enter(0, 0))
       IN  Install(s) /\ last' = Outcome("construct", q, q, NULL, s)
    /\ exists' = [exists EXCEPT ![q] = TRUE]
    /\ oracle' = [oracle EXCEPT ![q] = 0]

\* A constructor that throws leaves no object behind.
Unwound(q, s) ==
    IF s.exc = "none" THEN s ELSE [s EXCEPT !.root[q] = NULL, !.count[q] = 0]

CopyConstruct(q, other, allocFailAt) ==
    /\ Running /\ last.op = "none" /\ ~exists[q] /\ exists[other]
    /\ LET s == copyConstruct(q, other, Enter(0, allocFailAt))
       IN  Install(Unwound(q, s)) /\ last' = Outcome("copy", q, other, NULL, s)
    /\ exists' = [exists EXCEPT ![q] = (last'.exc = "none")]
    /\ oracle' = IF last'.exc = "none" THEN [oracle EXCEPT ![q] = oracle[other]]
                 ELSE oracle

Destroy(q) ==
    /\ Ready(q)
    /\ LET s == destroy(q, Enter(0, 0))
       IN  /\ Install([s EXCEPT !.root[q] = NULL, !.count[q] = 0])
           /\ last' = Outcome("destroy", q, q, NULL, s)
    /\ exists' = [exists EXCEPT ![q] = FALSE]
    /\ oracle' = [oracle EXCEPT ![q] = 0]

Assign(q, other, allocFailAt) ==
    /\ Ready(q) /\ exists[other]
    /\ LET s == assign(q, other, Enter(0, allocFailAt))
       IN  Install(s) /\ last' = Outcome("assign", q, other, NULL, s)
    /\ oracle' = IF last'.exc = "none" THEN [oracle EXCEPT ![q] = oracle[other]]
                 ELSE oracle
    /\ UNCHANGED exists

Top(q) ==
    /\ Ready(q)
    /\ LET s == top(q, Enter(0, 0))
       IN  Install(s) /\ last' = Outcome("top", q, q, s.ret, s)
    /\ UNCHANGED <<exists, oracle>>

Push(q, e, failAt, allocFailAt) ==
    /\ Ready(q)
    /\ Cardinality(live) < MaxLive
    /\ LET s == push(q, e, Enter(failAt, allocFailAt))
       IN  Install(s) /\ last' = Outcome("push", q, q, NULL, s)
    /\ oracle' = IF last'.exc = "none" THEN [oracle EXCEPT ![q] = @ + 1] ELSE oracle
    /\ UNCHANGED exists

Pop(q, failAt) ==
    /\ Ready(q)
    /\ LET s == pop(q, Enter(failAt, 0))
       IN  Install(s) /\ last' = Outcome("pop", q, q, NULL, s)
    /\ oracle' = IF last'.exc = "none" THEN [oracle EXCEPT ![q] = @ - 1] ELSE oracle
    /\ UNCHANGED exists

Merge(q, other, failAt) ==
    /\ Ready(q) /\ exists[other]
    /\ LET s == merge(q, other, Enter(failAt, 0))
       IN  Install(s) /\ last' = Outcome("merge", q, other, NULL, s)
    /\ oracle' = IF last'.exc = "none" /\ q # other
                 THEN [oracle EXCEPT ![q] = @ + oracle[other], ![other] = 0]
                 ELSE oracle
    /\ UNCHANGED exists

\* The caller takes the result (or catches the exception) of the call.
Return ==
    /\ Running /\ last.op # "none"
    /\ last' = Idle
    /\ UNCHANGED <<data, left, right, npl, live, avail, root, count, exists,
                   oracle, crashed>>

\* push, pop, top and merge on default-constructed containers; only the
\* comparison predicate may throw.
Next ==
    \/ Return
    \/ \E q \in Queues : Construct(q)
    \/ \E q \in Queues : Top(q)
    \/ \E q \in Queues, e \in Values, f \in 0..MaxFail : Push(q, e, f, 0)
    \/ \E q \in Queues, f \in 0..MaxFail : Pop(q, f)
    \/ \E q \in Queues, o \in Queues, f \in 0..MaxFail : Merge(q, o, f)

Spec == Init /\ [][Next]_vars

\* The same with copy construction, copy assignment and destruction.
Copying ==
    \/ \E q \in Queues, o \in Queues : CopyConstruct(q, o, 0)
    \/ \E q \in Queues, o \in Queues : Assign(q, o, 0)
    \/ \E q \in Queues : Destroy(q)

NextCopy == Next \/ Copying

SpecCopy == Init /\ [][NextCopy]_vars

\* push, pop, top and merge, and the calls in which operator new (or the
\* element's copy constructor) throws: at its first allocation in push, at
\* any of its allocations in a copy construction or copy assignment.
AllocFailure ==
    \/ \E q \in Queues, o \in Queues : \E k \in 1..count[o] : CopyConstruct(q, o, k)
    \/ \E q \in Queues, o \in Queues : \E k \in 1..count[o] : Assign(q, o, k)
    \/ \E q \in Queues, e \in Values : Push(q, e, 0, 1)

NextAlloc == Next \/ AllocFailure

SpecAlloc == Init /\ [][NextAlloc]_vars

\* ------------------------------------------------------- reading the state
\* The state between calls, as the operators above take it.
Now == Enter(0, 0)

\* Addresses of the tree below node (depth-bounded, so that it is defined on
\* any store).
RECURSIVE Subtree(_, _, _)
Subtree(node, s, k) ==
    IF node = NULL \/ k = 0 THEN {}
    ELSE {node} \cup Subtree(s.left[node], s, k - 1) \cup Subtree(s.right[node], s, k - 1)

\* Occurrences of element v in the tree below node.
RECURSIVE Occ(_, _, _, _)
Occ(v, node, s, k) ==
    IF node = NULL \/ k = 0 THEN 0
    ELSE (IF s.data[node] = v THEN 1 ELSE 0)
         + Occ(v, s.left[node], s, k - 1) + Occ(v, s.right[node], s, k - 1)

\* The state a step leads to, in the same form.
After ==
    [Now EXCEPT !.data = data', !.left = left', !.right = right', !.npl = npl',
                !.live = live', !.avail = avail', !.root = root', !.count = count']

NodesIn(q, s) == Subtree(s.root[q], s, MaxNodes)
NodesOf(q) == NodesIn(q, Now)

\* The multiset of elements container q holds.
HeldIn(q, s) == [v \in Values |-> Occ(v, s.root[q], s, MaxNodes)]
Held(q) == HeldIn(q, Now)

\* top(); pop(); repeated with a predicate that does not throw, until top()
\* reports an empty container: the elements seen, and the state reached.
RECURSIVE Drain(_, _, _)
Drain(q, s, k) ==
    LET t == top(q, s)
    IN  IF k = 0 \/ t.exc # "none" THEN [out |-> <<>>, s |-> s]
        ELSE LET p == pop(q, s)
                 d == Drain(q, p, k - 1)
             IN  [out |-> <<t.ret>> \o d.out, s |-> d.s]

PopSeqIn(q, s) == Drain(q, s, MaxNodes + 1).out
PopSeq(q) == PopSeqIn(q, Now)

NoFrees == [n \in Nodes |-> 0]

\* Everything a call can modify.
store == <<data, left, right, npl, live, avail, root, count>>

\* The step is a call of op on container q (with operand o) that ended in exc.
Did(op, q, o, exc) ==
    /\ last'.op = op /\ last'.q = q /\ last'.other = o /\ last'.exc = exc

\* ------------------------------------------------------------------ claims

\* C1: whenever a container is non-empty, top() reports no error and returns
\* an element the container holds such that cmp(e, x) is false for every
\* element x it holds.
C1_TopIsMaximum ==
    \A q \in Queues :
        (exists[q] /\ count[q] > 0) =>
            LET t == top(q, Now)
            IN  /\ t.exc = "none"
                /\ Held(q)[t.ret] > 0
                /\ \A x \in Values : Held(q)[x] > 0 => ~Cmp(t.ret, x)

\* top() has returned the larger element from a container of at least three
\* elements that also holds the smaller one.
C1_Witness ==
    /\ last.op = "top" /\ last.exc = "none"
    /\ count[last.q] >= 3
    /\ last.value = 1
    /\ Held(last.q)[0] >= 1

\* C2: a merge(other), other distinct from this, in which the predicate
\* throws leaves root and count of both containers, every node field, the set
\* of live nodes, both trees and both pop() sequences as they were; other
\* still owns its tree.
C2_MergeFailureRestoresBoth ==
    [][\A q \in Queues : \A o \in Queues \ {q} :
          Did("merge", q, o, "runtime_error") =>
              /\ root' = root /\ count' = count
              /\ data' = data /\ left' = left /\ right' = right /\ npl' = npl
              /\ live' = live
              /\ NodesIn(q, After) = NodesOf(q) /\ NodesIn(o, After) = NodesOf(o)
              /\ PopSeqIn(q, After) = PopSeq(q) /\ PopSeqIn(o, After) = PopSeq(o)
              /\ size(q, After) = size(q, Now) /\ size(o, After) = size(o, Now)]_vars

\* A merge of two non-empty containers failed at its second comparison.
C2_Witness ==
    /\ last.op = "merge" /\ last.exc = "runtime_error"
    /\ last.q # last.other
    /\ last.cmps = 2
    /\ count[last.q] >= 1 /\ count[last.other] >= 1

\* C3: a push in which the predicate throws, at whichever comparison, has
\* released the node it allocated (exactly once), leaves it unreachable from
\* the root, and leaves root, count, every child link, every npl and the
\* allocator as before the call.
C3_PushFailureReleasesNode ==
    [][\A q \in Queues :
          Did("push", q, q, "runtime_error") =>
              /\ root' = root /\ count' = count
              /\ data' = data /\ left' = left /\ right' = right /\ npl' = npl
              /\ live' = live /\ avail' = avail
              /\ Cardinality(last'.made) = 1
              /\ \A n \in Nodes :
                     /\ last'.freed[n] = (IF n \in last'.made THEN 1 ELSE 0)
                     /\ n \in last'.made => n \notin live' /\ n \notin NodesIn(q, After)]_vars

\* A push into a container of three elements failed at the second comparison.
C3_Witness ==
    /\ last.op = "push" /\ last.exc = "runtime_error"
    /\ last.cmps = 2
    /\ count[last.q] = 3

\* C4: a pop of a non-empty container in which the predicate throws reports
\* runtime_error, leaves root and count as before, releases nothing (the old
\* root stays live) and leaves every node field as before; a pop that
\* succeeds has released the old root, and only it.
C4_PopFailureKeepsOldRoot ==
    [][\A q \in Queues :
          /\ Did("pop", q, q, "runtime_error") =>
                 /\ root[q] # NULL
                 /\ root' = root /\ count' = count
                 /\ data' = data /\ left' = left /\ right' = right /\ npl' = npl
                 /\ last'.freed = NoFrees
                 /\ live' = live /\ root[q] \in live'
          /\ Did("pop", q, q, "none") =>
                 /\ last'.freed = [n \in Nodes |-> IF n = root[q] THEN 1 ELSE 0]
                 /\ root[q] \notin live'
                 /\ count' = [count EXCEPT ![q] = @ - 1]]_vars

\* A pop of a three-element container failed in its comparison.
C4_Witness ==
    /\ last.op = "pop" /\ last.exc = "runtime_error"
    /\ last.cmps = 1
    /\ count[last.q] >= 3
    /\ root[last.q] \in live

\* C5: a successful merge(other) on distinct containers of sizes m and n
\* leaves this with size m + n and the multiset union of both, and other with
\* root none and count 0.
C5_MergeUnion ==
    [][\A q \in Queues : \A o \in Queues \ {q} :
          Did("merge", q, o, "none") =>
              /\ count'[q] = count[q] + count[o]
              /\ HeldIn(q, After) = [v \in Values |-> Held(q)[v] + Held(o)[v]]
              /\ Cardinality(NodesIn(q, After)) = count'[q]
              /\ size(q, After) = size(q, Now) + size(o, Now)
              /\ root'[o] = NULL
              /\ count'[o] = 0]_vars

\* Two non-empty containers were merged into one of at least three elements.
C5_Witness ==
    /\ last.op = "merge" /\ last.exc = "none" /\ last.q # last.other
    /\ last.cmps >= 1
    /\ count[last.q] >= 3
    /\ count[last.other] = 0

\* C6: popping a container until top() reports it empty takes exactly size()
\* pops, yields a sequence in which no later element compares greater than an
\* earlier one and which is a permutation of the multiset held at the start,
\* and leaves the container empty.
C6_PopsDescend ==
    \A q \in Queues :
        exists[q] =>
            LET d == Drain(q, Now, MaxNodes + 1)
                n == Len(d.out)
            IN  /\ n = size(q, Now)
                /\ \A i \in 1..n : \A j \in 1..n : i < j => ~Cmp(d.out[i], d.out[j])
                /\ \A v \in Values :
                       Cardinality({i \in 1..n : d.out[i] = v}) = Held(q)[v]
                /\ d.s.root[q] = NULL /\ size(q, d.s) = 0 /\ empty(q, d.s)
                /\ n > 0 => ~empty(q, Now)

\* A pop has succeeded on a container that still holds both elements 0 and 1
\* among at least three.
C6_Witness ==
    /\ last.op = "pop" /\ last.exc = "none"
    /\ count[last.q] >= 3
    /\ Held(last.q)[0] >= 1 /\ Held(last.q)[1] >= 1

\* Every field of every node of container p, its root and its count are after
\* the step what they were before it, and so is its pop() sequence.
Untouched(p) ==
    /\ root'[p] = root[p] /\ count'[p] = count[p]
    /\ \A n \in NodesOf(p) :
           /\ n \in live'
           /\ data'[n] = data[n] /\ left'[n] = left[n]
           /\ right'[n] = right[n] /\ npl'[n] = npl[n]
    /\ NodesIn(p, After) = NodesOf(p)
    /\ PopSeqIn(p, After) = PopSeq(p)

\* C7: a copy construction or copy assignment that ends in bad_alloc has
\* deleted every node it allocated exactly once and no other node, and leaves
\* the source and (for assignment) the destination as they were.
C7_CopyFailureReleasesEachNodeOnce ==
    [][\A q \in Queues : \A o \in Queues \ {q} :
          (Did("copy", q, o, "bad_alloc") \/ Did("assign", q, o, "bad_alloc")) =>
              /\ ~last'.ub
              /\ \A n \in Nodes :
                     last'.freed[n] = (IF n \in last'.made THEN 1 ELSE 0)
              /\ live' = live
              /\ Untouched(o)
              /\ exists[q] => Untouched(q)]_vars

C9_SizeMatchesOracle ==
    \A q \in Queues : exists[q] => size(q, Now) = oracle[q]

\* A merge has failed between two non-empty containers, after pushes and
\* pops that the oracle counted.
C9_Witness ==
    /\ last.op = "merge" /\ last.exc = "runtime_error"
    /\ oracle[last.q] >= 2 /\ oracle[last.other] >= 1

\* C10: on a container whose count is zero, top() and pop() raise
\* container_is_empty without calling the predicate and without changing
\* anything; and a call that raised it was made on such a container.
C10_EmptyErrorBeforeMutation ==
    /\ \A q \in Queues :
           (exists[q] /\ count[q] = 0) =>
               /\ top(q, Now) = [Now EXCEPT !.exc = "container_is_empty"]
               /\ \A f \in 0..MaxFail :
                      pop(q, Enter(f, 0))
                          = [Enter(f, 0) EXCEPT !.exc = "container_is_empty"]
    /\ (last.op \in {"top", "pop"} /\ last.exc = "container_is_empty") =>
           /\ count[last.q] = 0 /\ root[last.q] = NULL
           /\ last.cmps = 0 /\ last.made = {} /\ last.freed = NoFrees

\* pop() has raised container_is_empty on a container emptied while the
\* other container holds elements.
C10_Witness ==
    /\ last.op = "pop" /\ last.exc = "container_is_empty"
    /\ count[last.q] = 0
    /\ \E p \in Queues : count[p] >= 2

\* C11: merge of a container with itself reports no failure, calls the
\* predicate zero times (whatever the predicate would do), allocates and
\* deletes nothing, and leaves every node field, root, count and the pop()
\* sequence as they were.
C11_SelfMergeIsNoOp ==
    [][\A q \in Queues :
          (last'.op = "merge" /\ last'.q = q /\ last'.other = q) =>
              /\ last'.exc = "none"
              /\ last'.cmps = 0
              /\ last'.made = {} /\ last'.freed = NoFrees
              /\ store' = store
              /\ NodesIn(q, After) = NodesOf(q)
              /\ PopSeqIn(q, After) = PopSeq(q)
              /\ size(q, After) = size(q, Now)]_vars

\* A container holding both elements among at least three has been merged
\* with itself.
C11_Witness ==
    /\ last.op = "merge" /\ last.q = last.other
    /\ count[last.q] >= 3
    /\ Held(last.q)[0] >= 1 /\ Held(last.q)[1] >= 1

\* The step takes container q, which exists before and after it, from empty
\* to non-empty / from non-empty to empty, as empty() reports it.
Fills(q) == exists[q] /\ exists'[q] /\ empty(q, Now) /\ ~empty(q, After)
Drains(q) == exists[q] /\ exists'[q] /\ ~empty(q, Now) /\ empty(q, After)

\* C12 as stated: push is the only call that takes a container from empty to
\* non-empty, and pop the only one that takes it from non-empty to empty.
C12_OnlyPushFillsOnlyPopDrains ==
    [][\A q \in Queues :
          /\ Fills(q) => last'.op = "push" /\ last'.q = q
          /\ Drains(q) => last'.op = "pop" /\ last'.q = q]_vars

\* C12, amended: a container goes from empty to non-empty only by a
\* successful push on it, a successful merge into it of a non-empty other
\* container, or a successful assignment to it from a non-empty one; it goes
\* from non-empty to empty only by a successful pop of its last element, by
\* being the operand of a successful merge into another container, or by a
\* successful assignment to it from an empty one.  A call that reports a
\* failure changes the emptiness of no container, a successful push leaves
\* its container non-empty, and a successful merge with a distinct operand
\* leaves the operand empty.
C12_FillAndDrainTransitions ==
    [][\A q \in Queues :
          /\ Fills(q) =>
                 \/ Did("push", q, q, "none")
                 \/ \E o \in Queues \ {q} :
                        /\ Did("merge", q, o, "none") \/ Did("assign", q, o, "none")
                        /\ ~empty(o, Now)
          /\ Drains(q) =>
                 \/ Did("pop", q, q, "none") /\ size(q, Now) = 1
                 \/ \E p \in Queues \ {q} : Did("merge", p, q, "none")
                 \/ \E o \in Queues \ {q} : Did("assign", q, o, "none") /\ empty(o, Now)
          /\ (last'.op # "none" /\ last'.exc # "none") => ~Fills(q) /\ ~Drains(q)
          /\ Did("push", q, q, "none") => ~empty(q, After)
          /\ \A o \in Queues \ {q} :
                 Did("merge", q, o, "none") =>
                     /\ empty(o, After)
                     /\ empty(q, After) <=> (empty(q, Now) /\ empty(o, Now))]_vars

\* A successful merge of two one-element containers has just emptied its
\* operand (a comparison was made, so both held an element before it).
C12_Witness ==
    /\ last.op = "merge" /\ last.exc = "none" /\ last.q # last.other
    /\ last.cmps = 1
    /\ count[last.q] = 2
    /\ empty(last.other, Now) /\ exists[last.other]

\* The predicate threw in the call that ended in r: its failAt-th call was made.
Threw(r) == r.failAt >= 1 /\ r.cmps >= r.failAt

\* What a call of push, pop or merge that ended in r reported, against what
\* the predicate did in it.
Reported(r, mayBeEmpty) ==
    /\ r.exc \in {"none", "runtime_error"} \cup (IF mayBeEmpty THEN {"container_is_empty"} ELSE {})
    /\ r.exc = "runtime_error" <=> Threw(r)
    /\ r.exc = "container_is_empty" => r.cmps = 0

\* C13: in every reachable state, a push, pop or merge in which the predicate
\* throws (at whichever of its calls) reports runtime_error, never the
\* predicate's own exception and never success; runtime_error is reported by
\* no call in which the predicate did not throw; and pop on an empty
\* container reports container_is_empty, not runtime_error.
C13_PredicateFailureIsRuntimeError ==
    /\ \A q \in Queues : \A f \in 0..MaxFail :
           exists[q] =>
               /\ \A e \in Values :
                      Cardinality(live) < MaxNodes =>
                          Reported(push(q, e, Enter(f, 0)), FALSE)
               /\ Reported(pop(q, Enter(f, 0)), root[q] = NULL)
               /\ \A o \in Queues : exists[o] => Reported(merge(q, o, Enter(f, 0)), FALSE)
    /\ last.op \in {"push", "pop", "merge"} =>
           /\ last.exc \in {"none", "runtime_error", "container_is_empty"}
           /\ last.exc = "runtime_error" => last.cmps >= 1
           /\ last.exc = "container_is_empty" => last.op = "pop" /\ last.cmps = 0

\* A push into a container of two elements has reported runtime_error after
\* one call of the predicate, while the other container holds an element.
C13_Witness ==
    /\ last.op = "push" /\ last.exc = "runtime_error"
    /\ last.cmps = 1
    /\ count[last.q] = 2
    /\ \E o \in Queues \ {last.q} : count[o] >= 1

\* The children a node has.
Children(n, s) == {s.left[n], s.right[n]} \ {NULL}

\* C14: in every reachable state (after any sequence of push, pop, merge,
\* copy and assignment calls, failed ones included) no node of any container
\* has a child whose element compares greater than its own: cmp(parent,
\* child) is false for both children.
C14_HeapProperty ==
    \A q \in Queues :
        exists[q] =>
            \A n \in NodesOf(q) : \A c \in Children(n, Now) : ~Cmp(data[n], data[c])

\* An assignment has produced a container of three elements whose root holds
\* the larger element and has two children, the right one holding the
\* smaller element.
C14_Witness ==
    /\ last.op = "assign" /\ last.exc = "none"
    /\ count[last.q] = 3
    /\ LET r == root[last.q]
       IN  /\ r # NULL /\ left[r] # NULL /\ right[r] # NULL
           /\ data[r] = 1 /\ data[right[r]] = 0

\* C15: in every reachable state every node of every container has
\* npl(left) >= npl(right), the npl of an absent child being -1.
C15_LeftistProperty ==
    \A q \in Queues :
        exists[q] =>
            \A n \in NodesOf(q) : getNpl(left[n], Now) >= getNpl(right[n], Now)

\* A pop aborted by the predicate has left a container of four elements in
\* which the root's left subtree is deeper than its right one.
C15_Witness ==
    /\ last.op = "pop" /\ last.exc = "runtime_error"
    /\ count[last.q] = 4
    /\ LET r == root[last.q]
       IN  /\ r # NULL /\ left[r] # NULL /\ right[r] # NULL
           /\ left[left[r]] # NULL
           /\ right[right[r]] = NULL /\ left[right[r]] = NULL

\* The null path length of the tree below node, from the shape of the tree:
\* -1 for no node, else one more than the smaller of the children's.
RECURSIVE TrueNpl(_, _, _)
TrueNpl(node, s, k) ==
    IF node = NULL \/ k = 0 THEN -1
    ELSE LET l == TrueNpl(s.left[node], s, k - 1)
             r == TrueNpl(s.right[node], s, k - 1)
         IN  (IF l < r THEN l ELSE r) + 1

\* C16: in every reachable state the npl field of every node of every
\* container is its true null path length: 0 when a child is missing, else
\* min(npl(left), npl(right)) + 1.
C16_NplIsNullPathLength ==
    \A q \in Queues :
        exists[q] =>
            \A n \in NodesOf(q) :
                /\ npl[n] = TrueNpl(n, Now, MaxNodes)
                /\ npl[n] = IF left[n] = NULL \/ right[n] = NULL THEN 0
                            ELSE (IF npl[left[n]] < npl[right[n]]
                                  THEN npl[left[n]] ELSE npl[right[n]]) + 1

\* A copy of a three-element container has been constructed; the copy's root
\* has two children and npl 1.
C16_Witness ==
    /\ last.op = "copy" /\ last.exc = "none"
    /\ root[last.q] # NULL
    /\ npl[root[last.q]] = 1
    /\ left[root[last.q]] # NULL /\ right[root[last.q]] # NULL
    /\ oracle[last.other] = 3
    /\ Cardinality(live) = 6

\* The number of nodes met on all paths from node downwards: the size of the
\* tree below node when it is a tree, more than that when a node is shared,
\* and more than MaxNodes when the links form a cycle.
RECURSIVE Size(_, _, _)
Size(node, s, k) ==
    IF node = NULL \/ k = 0 THEN 0
    ELSE 1 + Size(s.left[node], s, k - 1) + Size(s.right[node], s, k - 1)

Owners(n) ==
    {<<p, "left">> : p \in {x \in live : left[x] = n}}
        \cup {<<p, "right">> : p \in {x \in live : right[x] = n}}
        \cup {<<q, "root">> : q \in {x \in Queues : exists[x] /\ root[x] = n}}

RECURSIVE FloorLog2(_)
FloorLog2(x) == IF x <= 1 THEN 0 ELSE 1 + FloorLog2(x \div 2)

\* The number of nodes on the path from node along right links.
RECURSIVE RightPath(_, _, _)
RightPath(node, s, k) ==
    IF node = NULL \/ k = 0 THEN 0 ELSE 1 + RightPath(s.right[node], s, k - 1)

\* The size of the tree below node in the current state.
SizeAt(node) == Size(node, Now, MaxNodes + 1)

\* The bound on the predicate calls of mergeNodes(h1, h2).
CmpBound(h1, h2) == FloorLog2(SizeAt(h1) + 1) + FloorLog2(SizeAt(h2) + 1)

\* C19: in every reachable state the rightmost path from any node whose
\* subtree has s nodes has at most floor(log2(s + 1)) nodes, and mergeNodes
\* on trees of n and m nodes (the roots of two containers in merge, the two
\* children of a root in pop, a root and the new node in push) returns after
\* at most floor(log2(n + 1)) + floor(log2(m + 1)) calls of the predicate.
C19_RightPathAndCmpBound ==
    /\ \A q \in Queues : \A n \in NodesOf(q) :
           RightPath(n, Now, MaxNodes + 1) <= FloorLog2(SizeAt(n) + 1)
    /\ \A q \in Queues : \A o \in Queues \ {q} :
           (exists[q] /\ exists[o]) =>
               mergeNodes(root[q], root[o], Now).cmps <= CmpBound(root[q], root[o])
    /\ \A q \in Queues :
           (exists[q] /\ root[q] # NULL) =>
               mergeNodes(left[root[q]], right[root[q]], Now).cmps
                   <= CmpBound(left[root[q]], right[root[q]])
    /\ \A q \in Queues : \A e \in Values :
           (exists[q] /\ Cardinality(live) < MaxNodes) =>
               push(q, e, Now).cmps <= FloorLog2(SizeAt(root[q]) + 1) + FloorLog2(2)
    /\ (last.op = "merge" /\ last.exc = "none") =>
           last.cmps <= 2 * FloorLog2(count[last.q] + 1)

\* A push into a container of three elements has made two comparisons: the
\* container now holds four.
C19_Witness ==
    /\ last.op = "push" /\ last.exc = "none"
    /\ last.cmps = 2
    /\ count[last.q] = 4

\* What one call of mergeNodes that ended in r did, s being the state it
\* started in: no predicate call after a store to a node, no allocation, no
\* delete, no element changed; and nothing stored at all when it threw.
ComparesThenWrites(r, s) ==
    /\ ~r.lateCmp
    /\ r.allocs = s.allocs /\ r.made = s.made /\ r.freed = s.freed
    /\ r.live = s.live /\ r.avail = s.avail
    /\ r.data = s.data /\ r.root = s.root /\ r.count = s.count
    /\ r.exc # "none" =>
           /\ r.exc = "cmp" /\ Threw(r)
           /\ r.writes = 0
           /\ r.left = s.left /\ r.right = s.right /\ r.npl = s.npl

\* C20: in every reachable state, every call of mergeNodes the public
\* operations can make (on the roots of two containers, on the two children
\* of a root, on a root and a newly allocated node), with the predicate
\* throwing at its 1st or 2nd call or not at all, makes all its predicate
\* calls before its first store to a left, right or npl field, allocates and
\* deletes nothing, and leaves every node field as it was when the predicate
\* throws.
C20_MergeNodesComparesBeforeWrites ==
    \A f \in 0..MaxFail :
        /\ \A q \in Queues : \A o \in Queues \ {q} :
               (exists[q] /\ exists[o]) =>
                   ComparesThenWrites(mergeNodes(root[q], root[o], Enter(f, 0)),
                                      Enter(f, 0))
        /\ \A q \in Queues :
               (exists[q] /\ root[q] # NULL) =>
                   ComparesThenWrites(
                       mergeNodes(left[root[q]], right[root[q]], Enter(f, 0)),
                       Enter(f, 0))
        /\ \A q \in Queues : \A e \in Values :
               (exists[q] /\ Cardinality(live) < MaxNodes) =>
                   LET s == NewNode(e, Enter(f, 0))
                   IN  ComparesThenWrites(mergeNodes(root[q], s.ret, s), s)

\* A merge of a one-element container into a three-element one whose root
\* has two children has been aborted at the second predicate call, one level
\* down the recursion.
C20_Witness ==
    /\ last.op = "merge" /\ last.exc = "runtime_error"
    /\ last.cmps = 2
    /\ count[last.q] = 3 /\ count[last.other] = 1
    /\ left[root[last.q]] # NULL /\ right[root[last.q]] # NULL
====
